---- MODULE Spec2Model ----
(***************************************************************************)
(* A model of the pose-variation generator: the App component's state      *)
(* (src/App.tsx), the bounded worker pool started by handleGenerate, and   *)
(* the generation client (src/services/geminiService.ts).                  *)
(*                                                                         *)
(* One step of the model is one synchronous run of JavaScript: an event    *)
(* handler, or the continuation of an async function from one await to     *)
(* the next.  A value that may be absent (null / undefined) is a sequence  *)
(* of length 0 or 1.  A data URL "data:<mime>;base64,<data>" is the record *)
(* [mime, data].  An optional property of an object is a field the record  *)
(* has or does not have.                                                   *)
(***************************************************************************)
EXTENDS Integers, Sequences, FiniteSets, TLC

VARIABLES
    modelImage,          \* useState<string | null>
    poseReferenceImage,  \* useState<string | null>
    poseSketchImage,     \* useState<string | null>
    poseGuidanceMode,    \* useState<PoseGuidanceMode>
    numVariations,       \* useState<number>
    customPrompt,        \* useState<string>
    generatedImages,     \* useState<GeneratedImage[]>
    isLoading,           \* useState<boolean>
    error,               \* useState<string | null>
    progress,            \* useState(0)
    run,                 \* what the running handleGenerate closed over (<<>>: no run)
    queue,               \* processQueue's queue of [index, promptText] entries
    completedCount,      \* handleGenerate's local counter
    workers,             \* the async workers of processQueue
    claimed,             \* history: the indices shifted off the queue, in order
    requests,            \* history: the network calls made, [index, parts]
    settled,             \* history: index -> how that job's call ended
    hung,                \* the job whose network call never returns (<<>>: none)
    probe                \* the generation client called on its own: input, result

vars == <<modelImage, poseReferenceImage, poseSketchImage, poseGuidanceMode,
          numVariations, customPrompt, generatedImages, isLoading, error,
          progress, run, queue, completedCount, workers, claimed, requests,
          settled, hung, probe>>

controls == <<modelImage, poseReferenceImage, poseSketchImage,
              poseGuidanceMode, numVariations, customPrompt>>

-----------------------------------------------------------------------------
(* Bounds of the exploration *)

\* the largest entry of the number-of-variations selector that is explored
MaxVariations == 10
\* how many entries of RANDOM_POSES the random choice ranges over
MaxPoses == 2
\* the largest entry of the selector explored where every way a call can end
\* is explored as well
MaxOutcomeVariations == 5
\* how many network calls of one run the exploration lets fail (calls that
\* are rejected before the network is reached are not counted)
MaxFailures == 1

\* length of the longest response (list of parts) explored on the client alone
MaxParts == 3

\* number of controls the user has changed since the run in progress started
MaxEdits == 1

-----------------------------------------------------------------------------
(* Constants of the program *)

concurrencyLimit == 5

VariationOptions == {1, 5, 10, 100}

RANDOM_POSES ==
    << "A full-body shot, walking confidently towards the camera.",
       "A portrait taken from a side profile.",
       "A three-quarter portrait, looking thoughtfully away.",
       "A medium shot with arms crossed, looking at the camera.",
       "A dynamic full-body shot captured mid-jump.",
       "A photo taken from a high angle, looking down.",
       "A close-up, glancing over their shoulder.",
       "A full-body shot in a crouching pose.",
       "A candid-style photo, captured in an unposed moment.",
       "A professional headshot from the chest up with a friendly smile." >>

SupportedMime == {"image/png", "image/jpeg", "image/webp"}

PoseGuidanceModes == {"text", "reference", "sketch"}

-----------------------------------------------------------------------------
(* Values *)

None == <<>>
Some(v) == <<v>>
Val(o) == o[1]

DataUrl(mime, data) == [mime |-> mime, data |-> data]

\* JavaScript's String.prototype.trim on the texts the model types
Trim(s) == IF s \in {"", " ", "  "} THEN "" ELSE s

\* a thrown value: an Error object with a message, or any other value
ErrorOf(msg) == [isError |-> TRUE, message |-> msg]
NonError == [isError |-> FALSE]

Min(a, b) == IF a < b THEN a ELSE b

-----------------------------------------------------------------------------
(* The generation client: src/services/geminiService.ts *)

\* the regular expression of fileToGenerativePart: a supported image MIME
\* type, then ";base64,", then any payload at all
MatchesDataUrl(dataUrl) == dataUrl.mime \in SupportedMime

\* [thrown, value]: the Part, or the Error thrown
fileToGenerativePart(dataUrl) ==
    IF MatchesDataUrl(dataUrl)
    THEN [thrown |-> FALSE,
          value  |-> [inlineData |-> [data |-> dataUrl.data,
                                      mimeType |-> dataUrl.mime]]]
    ELSE [thrown |-> TRUE, value |-> ErrorOf("Invalid data URL format")]

HasInlineData(part) == "inlineData" \in DOMAIN part

\* the index of the last part at or after i that carries inline data, 0 if none
LastInline(parts, i) ==
    LET inline == {j \in i..Len(parts) : HasInlineData(parts[j])} IN
    IF inline = {} THEN 0
    ELSE CHOOSE j \in inline : \A k \in inline : k <= j

\* the index of the first part at or after i that carries inline data, 0 if none
RECURSIVE FirstInline(_, _)
FirstInline(parts, i) ==
    IF i > Len(parts) THEN 0
    ELSE IF HasInlineData(parts[i]) THEN i
    ELSE FirstInline(parts, i + 1)

\* [thrown, value]: the data URL of the first inline image, or the Error thrown
extractImageData(response) ==
    LET i == FirstInline(response.parts, 1) IN
    IF i # 0
    THEN [thrown |-> FALSE,
          value  |-> DataUrl(response.parts[i].inlineData.mimeType,
                             response.parts[i].inlineData.data)]
    ELSE IF response.finishReason # "STOP" /\ response.finishReason # "MAX_TOKENS"
    THEN [thrown |-> TRUE,
          value  |-> ErrorOf("Image generation stopped due to: "
                             \o response.finishReason
                             \o ". Check safety ratings.")]
    ELSE [thrown |-> TRUE,
          value  |-> ErrorOf("No image was generated. The model may have refused the request.")]

\* JavaScript truthiness of an optional string, and of an optional data URL
\* (a data URL is never the empty string)
Truthy(o) == o # None /\ Val(o) # ""
TruthyImage(o) == o # None

\* The prompt is the sequence of the clauses appended to it.
TaskClause == [clause |-> "task"]
ReferenceClause == [clause |-> "pose-reference"]
SketchClause == [clause |-> "pose-sketch"]
TextClause(t) == [clause |-> "pose-text", text |-> t]
RefinementClause(t) == [clause |-> "refinement", text |-> t]

PoseClauses(guidance) ==
    IF TruthyImage(guidance.referenceImage) THEN <<ReferenceClause>>
    ELSE IF TruthyImage(guidance.sketchImage) THEN <<SketchClause>>
    ELSE IF Truthy(guidance.text) THEN <<TextClause(Val(guidance.text))>>
    ELSE <<>>

\* the refinement appended without the test of trim()
RefinementClausesNoTrim(guidance) ==
    IF (TruthyImage(guidance.referenceImage) \/ TruthyImage(guidance.sketchImage))
       /\ Truthy(guidance.text)
    THEN <<RefinementClause(Val(guidance.text))>>
    ELSE <<>>

RefinementClauses(guidance) ==
    IF (TruthyImage(guidance.referenceImage) \/ TruthyImage(guidance.sketchImage))
       /\ Truthy(guidance.text) /\ Trim(Val(guidance.text)) # ""
    THEN <<RefinementClause(Val(guidance.text))>>
    ELSE <<>>

\* the guidance image pushed after the model image, if any
GuidanceImage(guidance) ==
    IF TruthyImage(guidance.referenceImage) THEN guidance.referenceImage
    ELSE IF TruthyImage(guidance.sketchImage) THEN guidance.sketchImage
    ELSE None

\* generatePosedVariation up to its await: [thrown, value], value the parts
\* handed to callGeminiImageModel or the Error thrown before any call
generatePosedVariationParts(image, guidance) ==
    LET first  == fileToGenerativePart(image)
        gimg   == GuidanceImage(guidance)
        second == IF gimg = None THEN None
                  ELSE Some(fileToGenerativePart(Val(gimg)))
        prompt == <<TaskClause>> \o PoseClauses(guidance)
                                 \o RefinementClauses(guidance)
    IN  IF first.thrown THEN first
        ELSE IF second # None /\ Val(second).thrown THEN Val(second)
        ELSE [thrown |-> FALSE,
              value  |-> <<first.value>>
                         \o (IF second = None THEN <<>> ELSE <<Val(second).value>>)
                         \o << [text |-> prompt] >>]

\* How callGeminiImageModel's promise can settle: the remote model answers
\* with a response, or the call rejects with whatever the SDK throws.
ImagePart == [inlineData |-> [mimeType |-> "image/png", data |-> "AAA="]]
TextPart == [text |-> "Here is your image."]

Responded(r) == [kind |-> "response", response |-> r]
Rejected(e) == [kind |-> "rejected", value |-> e]

\* generatePosedVariation after its await: [thrown, value]
generatePosedVariationResult(outcome) ==
    IF outcome.kind = "response" THEN extractImageData(outcome.response)
    ELSE [thrown |-> TRUE, value |-> outcome.value]

-----------------------------------------------------------------------------
(* The App component: src/App.tsx *)

Workers == 1..concurrencyLimit

\* the entries of the selector that the exploration reaches
Options == {n \in VariationOptions : n <= MaxVariations}

\* the catalog entries Math.random() can select
PoseChoices == {RANDOM_POSES[i] : i \in 1..Min(MaxPoses, Len(RANDOM_POSES))}

\* { ...img, ...upd }
Spread(img, upd) ==
    [f \in DOMAIN img \cup DOMAIN upd |->
        IF f \in DOMAIN upd THEN upd[f] ELSE img[f]]

\* Publish with the position in the list taken for the id
PublishOffByOne(prev, index, upd) ==
    [k \in DOMAIN prev |->
        IF k = index THEN Spread(prev[k], upd) ELSE prev[k]]

\* Publish without the test of the id
PublishAll(prev, index, upd) ==
    [k \in DOMAIN prev |-> Spread(prev[k], upd)]

\* prev.map(img => img.id === index ? { ...img, ...upd } : img)
Publish(prev, index, upd) ==
    [k \in DOMAIN prev |->
        IF prev[k].id = index THEN Spread(prev[k], upd) ELSE prev[k]]

\* the catch clause's message
CatchMessage(e) ==
    IF e.isError THEN e.message
    ELSE "An unknown error occurred during generation."

\* the button disabled by the missing inputs alone
isGenerateDisabledInputsOnly ==
    \/ modelImage = None
    \/ (poseGuidanceMode = "reference" /\ poseReferenceImage = None)
    \/ (poseGuidanceMode = "sketch" /\ poseSketchImage = None)

isGenerateDisabled ==
    \/ isLoading
    \/ modelImage = None
    \/ (poseGuidanceMode = "reference" /\ poseReferenceImage = None)
    \/ (poseGuidanceMode = "sketch" /\ poseSketchImage = None)

\* the guidance with both images passed whatever the mode
GuidanceForAnyMode(r, promptText) ==
    [text           |-> Some(IF r.poseGuidanceMode = "text" THEN promptText
                             ELSE r.customPrompt),
     referenceImage |-> r.poseReferenceImage,
     sketchImage    |-> r.poseSketchImage]

\* the guidance processNext passes for one queue entry, from the values the
\* running handleGenerate closed over
GuidanceFor(r, promptText) ==
    [text           |-> Some(IF r.poseGuidanceMode = "text" THEN promptText
                             ELSE r.customPrompt),
     referenceImage |-> IF r.poseGuidanceMode = "reference"
                        THEN r.poseReferenceImage ELSE None,
     sketchImage    |-> IF r.poseGuidanceMode = "sketch"
                        THEN r.poseSketchImage ELSE None]

NoWorker == [pc |-> "none"]

\* queue.pop() in place of queue.shift(): the last entry is read
Head1Pop(q) == q[Len(q)]

\* queue.shift(): the head, and the queue without it
Head1(q) == Head(q)
\* the head read as queue[0], the queue left as it is
ShiftStale(q) == q
Shift(q) == Tail(q)

\* processNext whose call to the remote model is made a second time
processNextClaimCallTwice(st, r, w) ==
    LET entry == Head1(st.queue)
        built == generatePosedVariationParts(
                     Val(r.modelImage), GuidanceFor(r, entry.promptText))
        sent  == [index |-> entry.index, parts |-> built.value]
    IN  [queue    |-> Shift(st.queue),
         workers  |-> [st.workers EXCEPT ![w] =
                          [pc    |-> "awaiting",
                           index |-> entry.index,
                           call  |-> IF built.thrown
                                     THEN [state |-> "rejected", value |-> built.value]
                                     ELSE [state |-> "network"]]],
         claimed  |-> Append(st.claimed, entry.index),
         requests |-> IF built.thrown THEN st.requests
                      ELSE Append(Append(st.requests, sent), sent)]

\* processNext from its start to its await, for a worker that found the
\* queue non-empty: the head is shifted off and generatePosedVariation runs
\* to its own await (the network call is made) or throws before it.
\* st is [queue, workers, claimed, requests].
processNextClaim(st, r, w) ==
    LET entry == Head1(st.queue)
        built == generatePosedVariationParts(
                     Val(r.modelImage), GuidanceFor(r, entry.promptText))
    IN  [queue    |-> Shift(st.queue),
         workers  |-> [st.workers EXCEPT ![w] =
                          [pc    |-> "awaiting",
                           index |-> entry.index,
                           call  |-> IF built.thrown
                                     THEN [state |-> "rejected", value |-> built.value]
                                     ELSE [state |-> "network"]]],
         claimed  |-> Append(st.claimed, entry.index),
         requests |-> IF built.thrown THEN st.requests
                      ELSE Append(st.requests,
                                  [index |-> entry.index, parts |-> built.value])]

\* the loop with processNext() not awaited: the worker goes round again at once
workerLoopTwo(st, r, w) ==
    IF Len(st.queue) > 1
    THEN processNextClaim(processNextClaim(st, r, w), r, w)
    ELSE IF Len(st.queue) > 0
    THEN processNextClaim(st, r, w)
    ELSE [st EXCEPT !.workers[w] = [pc |-> "terminated"]]

\* the loop written as an `if`: one job per worker
workerLoopOnce(st, r, w) ==
    IF st.workers[w].pc = "none" /\ Len(st.queue) > 0
    THEN processNextClaim(st, r, w)
    ELSE [st EXCEPT !.workers[w] = [pc |-> "terminated"]]

\* one evaluation of the worker's loop condition and what follows it up to
\* the next await: claim the head, or leave the loop
workerLoop(st, r, w) ==
    IF Len(st.queue) > 0
    THEN processNextClaim(st, r, w)
    ELSE [st EXCEPT !.workers[w] = [pc |-> "terminated"]]

\* Array(concurrencyLimit).fill(null).map(async () => ...): each worker runs
\* synchronously up to its first await, in order
RECURSIVE LaunchWorkers(_, _, _)
LaunchWorkers(st, r, w) ==
    IF w > concurrencyLimit THEN st
    ELSE LaunchWorkers(workerLoop(st, r, w), r, w + 1)

-----------------------------------------------------------------------------
(* Values the exploration draws from *)

ModelPng == DataUrl("image/png", "TU9E")
ModelGif == DataUrl("image/gif", "R0lG")
ReferenceJpeg == DataUrl("image/jpeg", "UkVG")
SketchWebp == DataUrl("image/webp", "U0tF")

\* every way a network call of a run can end
NetworkOutcomes ==
    { Responded([parts |-> <<TextPart, ImagePart>>, finishReason |-> "STOP"]),
      Responded([parts |-> <<TextPart>>, finishReason |-> "SAFETY"]),
      Responded([parts |-> <<TextPart>>, finishReason |-> "STOP"]),
      Rejected(ErrorOf("Failed to fetch")),
      Rejected(ErrorOf("")),
      Rejected(NonError) }

\* the two ways the pool itself tells apart: an image came back, or not
PoolOutcomes ==
    { Responded([parts |-> <<TextPart, ImagePart>>, finishReason |-> "STOP"]),
      Rejected(ErrorOf("Failed to fetch")) }

\* how the promise a worker awaits can settle: a call rejected before the
\* network settles with what was thrown, a network call in any of `net`
OutcomesOf(call, net) ==
    IF call.state = "rejected" THEN {Rejected(call.value)} ELSE net

-----------------------------------------------------------------------------
(* The steps of the program *)

\* prompts of lines 68-70: the custom prompt N times, or N random poses
PromptChoices ==
    IF Trim(customPrompt) # ""
    THEN {[i \in 1..numVariations |-> customPrompt]}
    ELSE [1..numVariations -> PoseChoices]

StartRun(prompts) ==
    LET r   == [modelImage         |-> modelImage,
                poseReferenceImage |-> poseReferenceImage,
                poseSketchImage    |-> poseSketchImage,
                poseGuidanceMode   |-> poseGuidanceMode,
                customPrompt       |-> customPrompt,
                prompts            |-> prompts]
        st0 == [queue    |-> [i \in 1..Len(prompts) |->
                                 [index |-> i - 1, promptText |-> prompts[i]]],
                workers  |-> [w \in Workers |-> NoWorker],
                claimed  |-> <<>>,
                requests |-> <<>>]
        st  == LaunchWorkers(st0, r, 1)
    IN  /\ isLoading' = TRUE
        /\ error' = None
        /\ progress' = 0
        /\ generatedImages' =
               [i \in 1..Len(prompts) |-> [id |-> i - 1, status |-> "pending"]]
        /\ completedCount' = 0
        /\ run' = Some(r)
        /\ queue' = st.queue
        /\ workers' = st.workers
        /\ claimed' = st.claimed
        /\ requests' = st.requests
        /\ settled' = [i \in 0..(Len(prompts) - 1) |-> "pending"]
        /\ UNCHANGED <<controls, hung, probe>>

ValidationError(msg) ==
    /\ error' = Some(msg)
    /\ UNCHANGED <<controls, generatedImages, isLoading, progress, run, queue,
                   completedCount, workers, claimed, requests, settled, hung,
                   probe>>

\* handleGenerate without the test of the reference image
handleGenerateNoReferenceCheck ==
    IF modelImage = None
    THEN ValidationError("Please upload a model image first.")
    ELSE IF poseGuidanceMode = "sketch" /\ poseSketchImage = None
    THEN ValidationError("Please upload a sketch for pose guidance.")
    ELSE \E prompts \in PromptChoices : StartRun(prompts)

\* handleGenerate from its start to its first await (lines 50-110)
handleGenerate ==
    IF modelImage = None
    THEN ValidationError("Please upload a model image first.")
    ELSE IF poseGuidanceMode = "reference" /\ poseReferenceImage = None
    THEN ValidationError("Please upload a reference image for pose extraction.")
    ELSE IF poseGuidanceMode = "sketch" /\ poseSketchImage = None
    THEN ValidationError("Please upload a sketch for pose guidance.")
    ELSE \E prompts \in PromptChoices : StartRun(prompts)

\* a click on the Generate button, which is disabled by isGenerateDisabled
ClickGenerate ==
    /\ ~isGenerateDisabled
    /\ handleGenerate

\* the update with the status alone
TerminalUpdateStatusOnly(result) ==
    [status |-> IF result.thrown THEN "error" ELSE "done"]

\* the update published for a job whose call ended with `result`
TerminalUpdate(result) ==
    IF result.thrown
    THEN [status |-> "error", error |-> CatchMessage(result.value)]
    ELSE [status |-> "done", url |-> result.value]

\* the count kept in the try block instead of the finally clause
CountAfterSuccessOnly(count, result) ==
    IF result.thrown THEN count ELSE count + 1

\* the finally clause's completedCount++
CountAfter(count, result) == count + 1

\* the error rethrown by the catch clause: it ends the worker
AfterSettleRethrow(result) ==
    IF result.thrown THEN [pc |-> "terminated"] ELSE [pc |-> "resuming"]

\* where the worker stands once processNext has returned: the catch clause
\* swallowed whatever was thrown, so the loop goes on either way
AfterSettle(result) == [pc |-> "resuming"]

\* processNext from the await of generatePosedVariation to its end (lines
\* 91-98), for worker w whose call ends with `outcome`
processNextSettled(w, outcome) ==
    LET index  == workers[w].index
        result == generatePosedVariationResult(outcome)
    IN  /\ generatedImages' = Publish(generatedImages, index, TerminalUpdate(result))
        /\ completedCount' = CountAfter(completedCount, result)
        /\ progress' = CountAfter(completedCount, result)
        /\ workers' = [workers EXCEPT ![w] = AfterSettle(result)]
        /\ settled' = [settled EXCEPT ![index] =
                          IF result.thrown THEN "threw" ELSE "returned"]
        /\ UNCHANGED <<controls, isLoading, error, run, queue, claimed, requests,
                       hung, probe>>

\* the network calls of the current run that have failed
NetworkFailures ==
    Cardinality({k \in 1..Len(requests) : settled[requests[k].index] = "threw"})

\* the promise worker w awaits settles, in one of the ways `net` allows
\* (the network call of the hung job, if there is one, never settles)
SettleWorker(w, net) ==
    /\ workers[w].pc = "awaiting"
    /\ workers[w].call.state = "network" => hung # Some(workers[w].index)
    /\ \E outcome \in OutcomesOf(workers[w].call, net) :
           /\ (workers[w].call.state = "network"
                  /\ generatePosedVariationResult(outcome).thrown)
              => NetworkFailures < MaxFailures
           /\ processNextSettled(w, outcome)

\* the pool run in batches: a worker goes on only once no call is in flight
ResumeWorkerInBatches(w) ==
    /\ run # None
    /\ workers[w].pc = "resuming"
    /\ \A v \in Workers : workers[v].pc # "awaiting"
    /\ LET st == workerLoop([queue |-> queue, workers |-> workers,
                             claimed |-> claimed, requests |-> requests],
                            Val(run), w)
       IN  /\ queue' = st.queue
           /\ workers' = st.workers
           /\ claimed' = st.claimed
           /\ requests' = st.requests
    /\ UNCHANGED <<controls, generatedImages, isLoading, error, progress,
                   run, completedCount, settled, hung, probe>>

\* the loop reading the mode, the text and the guidance images of the
\* current render instead of those its handleGenerate closed over
ResumeWorkerCurrentState(w) ==
    /\ run # None
    /\ workers[w].pc = "resuming"
    /\ LET st == workerLoop([queue |-> queue, workers |-> workers,
                             claimed |-> claimed, requests |-> requests],
                            [Val(run) EXCEPT
                                !.poseGuidanceMode = poseGuidanceMode,
                                !.customPrompt = customPrompt,
                                !.poseReferenceImage = poseReferenceImage,
                                !.poseSketchImage = poseSketchImage],
                            w)
       IN  /\ queue' = st.queue
           /\ workers' = st.workers
           /\ claimed' = st.claimed
           /\ requests' = st.requests
    /\ UNCHANGED <<controls, generatedImages, isLoading, error, progress,
                   run, completedCount, settled, hung, probe>>

\* worker w's loop after `await processNext()` (lines 102-104)
ResumeWorker(w) ==
    /\ run # None
    /\ workers[w].pc = "resuming"
    /\ LET st == workerLoop([queue |-> queue, workers |-> workers,
                             claimed |-> claimed, requests |-> requests],
                            Val(run), w)
       IN  /\ queue' = st.queue
           /\ workers' = st.workers
           /\ claimed' = st.claimed
           /\ requests' = st.requests
    /\ UNCHANGED <<controls, generatedImages, isLoading, error, progress,
                   run, completedCount, settled, hung, probe>>

WorkerResume == \E w \in Workers : ResumeWorker(w)

\* Promise.race in place of Promise.all
AnyTerminated == \E w \in Workers : workers[w].pc = "terminated"

AllTerminated == \A w \in Workers : workers[w].pc = "terminated"

\* Promise.all(workers) resolves, processQueue returns, setIsLoading(false)
\* (lines 107-111)
handleGenerateDone ==
    /\ run # None
    /\ AllTerminated
    /\ isLoading' = FALSE
    /\ run' = None
    /\ UNCHANGED <<controls, generatedImages, error, progress, queue,
                   completedCount, workers, claimed, requests, settled, hung,
                   probe>>

\* the number-of-variations selector (lines 194-201)
SetNumVariations ==
    \E n \in Options :
        /\ n # numVariations
        /\ numVariations' = n
        /\ UNCHANGED <<modelImage, poseReferenceImage, poseSketchImage,
                       poseGuidanceMode, customPrompt, generatedImages,
                       isLoading, error, progress, run, queue, completedCount,
                       workers, claimed, requests, settled, hung, probe>>

-----------------------------------------------------------------------------
(* Specifications *)

\* the generation client has not been called on its own
NoProbe == [op |-> "none"]

InitApp ==
    /\ generatedImages = <<>>
    /\ isLoading = FALSE
    /\ error = None
    /\ progress = 0
    /\ run = None
    /\ queue = <<>>
    /\ completedCount = 0
    /\ workers = [w \in Workers |-> NoWorker]
    /\ claimed = <<>>
    /\ requests = <<>>
    /\ settled = <<>>
    /\ hung = None
    /\ probe = NoProbe

\* The worker pool: the user has uploaded a model image and typed a prompt,
\* picks a number of variations and generates, again and again.
Init ==
    /\ modelImage \in {Some(ModelPng), Some(ModelGif)}
    /\ poseReferenceImage = None
    /\ poseSketchImage = None
    /\ poseGuidanceMode = "text"
    /\ numVariations \in Options
    /\ customPrompt = "dramatic lighting"
    /\ InitApp

SettlePool == \E w \in Workers : SettleWorker(w, PoolOutcomes)

Next ==
    \/ ClickGenerate
    \/ SettlePool
    \/ WorkerResume
    \/ handleGenerateDone

Spec == Init /\ [][Next]_vars

\* The same, under the scheduling the event loop gives: every call returns,
\* every continuation that is ready runs.
\* Runs larger than MaxOutcomeVariations are explored here with the model
\* image every call rejects (all jobs fail), smaller ones with both images.
InitFair ==
    /\ Init
    /\ numVariations > MaxOutcomeVariations => modelImage = Some(ModelGif)

FairSpec ==
    /\ InitFair
    /\ [][Next]_vars
    /\ WF_vars(SettlePool)
    /\ WF_vars(WorkerResume)
    /\ WF_vars(handleGenerateDone)

\* The same pool, with every way a call can end.
SettleAny == \E w \in Workers : SettleWorker(w, NetworkOutcomes)

NextOutcomes ==
    \/ ClickGenerate
    \/ SettleAny
    \/ WorkerResume
    \/ handleGenerateDone

InitOutcomes ==
    /\ Init
    /\ numVariations <= MaxOutcomeVariations

SpecOutcomes == InitOutcomes /\ [][NextOutcomes]_vars

-----------------------------------------------------------------------------
(* Vocabulary of the properties *)

Terminal(img) == img.status \in {"done", "error"}

\* the jobs of the list that are not pending
NotPending == {k \in 1..Len(generatedImages) : generatedImages[k].status # "pending"}

\* the indices that have been claimed and whose job is not yet terminal
InFlight ==
    {k \in 1..Len(claimed) :
        \E j \in 1..Len(generatedImages) :
            /\ generatedImages[j].id = claimed[k]
            /\ generatedImages[j].status = "pending"}

\* a step that starts a run
StartsRun == run = None /\ run' # None

-----------------------------------------------------------------------------
(* Properties *)

(* C1: when a run completes (handleGenerate reaches setIsLoading(false)), *)
(* the job list holds exactly N jobs, each done or error, the completed   *)
(* counter and the progress are N, and no worker is still active.         *)
C1_RunCompletesWithAllJobsTerminal ==
    [][handleGenerateDone =>
        LET N == Len(Val(run).prompts) IN
        /\ N >= 1
        /\ Len(generatedImages') = N
        /\ \A k \in 1..N : Terminal(generatedImages'[k])
        /\ completedCount' = N
        /\ progress' = N
        /\ \A w \in Workers : workers'[w].pc \notin {"awaiting", "resuming"}
        /\ queue' = <<>>]_vars

\* a run of ten jobs has completed, with jobs of both outcomes
C1_Witness ==
    /\ run = None
    /\ ~isLoading
    /\ Len(generatedImages) = 10
    /\ \E k \in 1..Len(generatedImages) : generatedImages[k].status = "done"
    /\ \E k \in 1..Len(generatedImages) : generatedImages[k].status = "error"

(* C2: no index is claimed twice, the workers that await hold different   *)
(* indices, and once every worker has left its loop each index of [0,N)   *)
(* has been claimed exactly once.                                         *)
C2_ClaimsPartitionIndices ==
    /\ \A a, b \in 1..Len(claimed) : a # b => claimed[a] # claimed[b]
    /\ \A v, w \in Workers :
          (v # w /\ workers[v].pc = "awaiting" /\ workers[w].pc = "awaiting")
              => workers[v].index # workers[w].index
    /\ \A k \in 1..Len(claimed) : claimed[k] \in 0..(Len(generatedImages) - 1)
    /\ (Len(generatedImages) > 0 /\ AllTerminated) =>
          \A i \in 0..(Len(generatedImages) - 1) :
              Cardinality({k \in 1..Len(claimed) : claimed[k] = i}) = 1

\* ten jobs, all claimed, the last five by workers that had finished a job
\* in an order that is not the order of the workers
C2_Witness ==
    /\ Len(generatedImages) = 10
    /\ Len(claimed) = 10
    /\ workers[3].pc = "awaiting" /\ workers[3].index = 5
    /\ workers[1].pc = "awaiting" /\ workers[1].index = 9

(* C3: the number of jobs in flight (claimed, not yet terminal) is never  *)
(* more than concurrencyLimit, hence never more than min(K, N).           *)
C3_InFlightAtMostK ==
    /\ Cardinality(InFlight) <= concurrencyLimit
    /\ Cardinality(InFlight) <= Min(concurrencyLimit, Len(generatedImages))

\* N <= K and all N jobs are in flight at once
C3_Witness ==
    /\ Len(generatedImages) = 5
    /\ Len(generatedImages) <= concurrencyLimit
    /\ Cardinality(InFlight) = Len(generatedImages)
    /\ \A w \in Workers : workers[w].pc = "awaiting"

(* C4: a job whose generation call throws or rejects, with any value     *)
(* whatsoever, ends in status error with an error message that is a       *)
(* non-empty string.                                                      *)
C4_FailedJobHasNonEmptyMessage ==
    \A k \in 1..Len(generatedImages) :
        LET img == generatedImages[k] IN
        /\ settled[img.id] = "threw" => img.status = "error"
        /\ img.status = "error" => ("error" \in DOMAIN img /\ img.error # "")

\* the status of each job against the recorded end of its own call
C5_StatusIsOwnOutcome ==
    \A k \in 1..Len(generatedImages) :
        LET img == generatedImages[k] IN
        /\ img.id = k - 1
        /\ img.id \in DOMAIN settled
        /\ settled[img.id] = "returned" <=> img.status = "done"
        /\ settled[img.id] = "threw" <=> img.status = "error"
        /\ settled[img.id] = "pending" <=> img.status = "pending"

C5_PublishTouchesOwnEntryOnly ==
    ~StartsRun =>
        /\ Len(generatedImages') = Len(generatedImages)
        /\ \A k \in 1..Len(generatedImages) :
              generatedImages'[k] # generatedImages[k]
                  => settled'[generatedImages[k].id] # settled[generatedImages[k].id]

(* C5: the status of each job follows from the outcome of its own call    *)
(* alone (done if it returned an image, error if it threw, pending while  *)
(* it has not ended), whatever the other jobs did and in whatever order;  *)
(* and an entry of the list changes only in the step in which its own     *)
(* job's call ends.                                                       *)
C5_TerminalStatusIsOwnOutcome ==
    /\ []C5_StatusIsOwnOutcome
    /\ [][C5_PublishTouchesOwnEntryOnly]_vars

\* a run of five has completed: job 1 failed, every other job succeeded
C5_Witness ==
    /\ run = None
    /\ Len(generatedImages) = 5
    /\ generatedImages[2].status = "error"
    /\ \A k \in {1, 3, 4, 5} : generatedImages[k].status = "done"

\* what a step may do to a worker and to the queue
C6_Step ==
    \A w \in Workers :
        /\ (workers'[w].pc = "terminated" /\ workers[w].pc # "terminated")
              => /\ queue' = <<>>
                 /\ workers[w].pc = "resuming" => queue = <<>>
        /\ (workers[w].pc = "awaiting" /\ workers'[w] # workers[w])
              => /\ workers'[w].pc = "resuming"
                 /\ queue' = queue
        /\ (workers[w].pc = "resuming" /\ workers'[w] # workers[w] /\ queue # <<>>)
              => /\ workers'[w].pc = "awaiting"
                 /\ workers'[w].index = Head(queue).index
                 /\ queue' = Tail(queue)

(* C6: a failed job stops neither the queue nor its worker.  A worker     *)
(* leaves its loop only in a step that finds the queue empty; the end of  *)
(* a job, with either outcome, leaves the queue as it is and sends the    *)
(* worker back to its loop condition; and a worker that evaluates the     *)
(* condition with the queue non-empty claims the head of the queue.       *)
C6_FailureDoesNotStopWorker == [][C6_Step]_vars

\* the worker whose first job failed, while the first jobs of all the other
\* workers are still pending, has claimed the next index
C6_Witness ==
    /\ Len(generatedImages) = 10
    /\ \E w \in Workers :
          /\ workers[w].pc = "awaiting"
          /\ workers[w].index = concurrencyLimit
          /\ generatedImages[w].status = "error"
          /\ \A v \in Workers \ {w} : generatedImages[v].status = "pending"

\* what a step may do to an entry of the job list
C7_Step ==
    ~StartsRun =>
        /\ Len(generatedImages') = Len(generatedImages)
        /\ \A k \in 1..Len(generatedImages) :
              /\ Terminal(generatedImages[k]) => generatedImages'[k] = generatedImages[k]
              /\ generatedImages'[k].status # generatedImages[k].status
                    => /\ generatedImages[k].status = "pending"
                       /\ Terminal(generatedImages'[k])

(* C7: within a run a job's status changes at most once, from pending to  *)
(* done or to error; once a job is done or error its entry (status, url,  *)
(* error) stays as it is until the next run replaces the list.            *)
C7_OneTransitionPerJob == [][C7_Step]_vars

\* a run in progress holds a done job, an error job and a pending job
C7_Witness ==
    /\ isLoading
    /\ \E k \in 1..Len(generatedImages) : generatedImages[k].status = "done"
    /\ \E k \in 1..Len(generatedImages) : generatedImages[k].status = "error"
    /\ \E k \in 1..Len(generatedImages) : generatedImages[k].status = "pending"

\* the progress against the job list, in a state and over a step
C8_ProgressCountsTerminalJobs ==
    /\ progress = Cardinality(NotPending)
    /\ completedCount = progress
    /\ progress <= Len(generatedImages)

C8_Step ==
    ~StartsRun =>
        /\ progress' \in {progress, progress + 1}
        /\ progress' = progress + 1
              <=> \E i \in DOMAIN settled : settled'[i] # settled[i]

(* C8: in every state the progress (and the completed counter behind it)  *)
(* is the number of jobs of the list that are not pending, and it is at   *)
(* most N; within a run it grows by exactly one with each job that ends   *)
(* and changes in no other step.                                          *)
C8_ProgressIsNumberOfTerminalJobs ==
    /\ []C8_ProgressCountsTerminalJobs
    /\ [][C8_Step]_vars

\* a run of ten in progress: seven jobs have ended, three of them after
\* the first five, and the progress shows seven
C8_Witness ==
    /\ isLoading
    /\ Len(generatedImages) = 10
    /\ progress = 7
    /\ Cardinality({k \in NotPending : k > concurrencyLimit}) = 3

(* C9: every job of the list has a url if and only if its status is done  *)
(* and an error if and only if its status is error; a pending job has     *)
(* neither.                                                               *)
C9_UrlIffDoneErrorIffFailed ==
    \A k \in 1..Len(generatedImages) :
        LET img == generatedImages[k] IN
        /\ img.status \in {"pending", "done", "error"}
        /\ "url" \in DOMAIN img <=> img.status = "done"
        /\ "error" \in DOMAIN img <=> img.status = "error"

\* the list holds a pending job, a job with a url and a job with an error
C9_Witness ==
    /\ \E k \in 1..Len(generatedImages) :
          generatedImages[k].status = "pending" /\ DOMAIN generatedImages[k] = {"id", "status"}
    /\ \E k \in 1..Len(generatedImages) : "url" \in DOMAIN generatedImages[k]
    /\ \E k \in 1..Len(generatedImages) : "error" \in DOMAIN generatedImages[k]

\* the completed state of a run
RunCompleted ==
    /\ ~isLoading
    /\ run = None
    /\ Len(generatedImages) >= 1
    /\ \A k \in 1..Len(generatedImages) : Terminal(generatedImages[k])

(* C10: under fair scheduling, where every call returns and every ready   *)
(* continuation runs, a run that is in progress leads to the completed    *)
(* state: loading flag false and all N jobs done or error, whatever the   *)
(* mix of outcomes.                                                       *)
C10_RunEventuallyCompletes == isLoading ~> RunCompleted

\* a run of ten has completed with all ten jobs failed
C10_Witness ==
    /\ RunCompleted
    /\ Len(generatedImages) = 10
    /\ \A k \in 1..Len(generatedImages) : generatedImages[k].status = "error"

-----------------------------------------------------------------------------
(* The controls of the page: src/App.tsx lines 125-201 *)

\* everything but the six controls
runState == <<generatedImages, isLoading, error, progress, run, queue,
              completedCount, workers, claimed, requests, settled, hung, probe>>

\* the model image uploader (line 147): an upload while the slot is empty,
\* the remove button while it is filled
setModelImage ==
    /\ modelImage' = IF modelImage = None THEN Some(ModelPng) ELSE None
    /\ UNCHANGED <<poseReferenceImage, poseSketchImage, poseGuidanceMode,
                   numVariations, customPrompt, runState>>

\* the reference uploader, rendered in reference mode (line 172)
setPoseReferenceImage ==
    /\ poseGuidanceMode = "reference"
    /\ poseReferenceImage' =
           IF poseReferenceImage = None THEN Some(ReferenceJpeg) ELSE None
    /\ UNCHANGED <<modelImage, poseSketchImage, poseGuidanceMode,
                   numVariations, customPrompt, runState>>

\* the sketch uploader, rendered in sketch mode (line 173)
setPoseSketchImage ==
    /\ poseGuidanceMode = "sketch"
    /\ poseSketchImage' =
           IF poseSketchImage = None THEN Some(SketchWebp) ELSE None
    /\ UNCHANGED <<modelImage, poseReferenceImage, poseGuidanceMode,
                   numVariations, customPrompt, runState>>

\* a TabButton (lines 125-135)
setPoseGuidanceMode ==
    \E mode \in PoseGuidanceModes :
        /\ mode # poseGuidanceMode
        /\ poseGuidanceMode' = mode
        /\ UNCHANGED <<modelImage, poseReferenceImage, poseSketchImage,
                       numVariations, customPrompt, runState>>

\* The page with its uploaders and tabs, used at any time, a run in progress
\* or not.  The user has selected one variation and typed a prompt; no image
\* is uploaded yet.
InitUI ==
    /\ modelImage = None
    /\ poseReferenceImage = None
    /\ poseSketchImage = None
    /\ poseGuidanceMode = "text"
    /\ numVariations = 1
    /\ customPrompt = "dramatic lighting"
    /\ InitApp

NextUI ==
    \/ setModelImage
    \/ setPoseReferenceImage
    \/ setPoseSketchImage
    \/ setPoseGuidanceMode
    \/ ClickGenerate
    \/ SettlePool
    \/ WorkerResume
    \/ handleGenerateDone

SpecUI == InitUI /\ [][NextUI]_vars

\* a worker stands between its claim and the end of its loop
WorkerInFlight == \E w \in Workers : workers[w].pc \in {"awaiting", "resuming"}

\* an input the selected mode needs is missing
InputMissing ==
    \/ modelImage = None
    \/ (poseGuidanceMode = "reference" /\ poseReferenceImage = None)
    \/ (poseGuidanceMode = "sketch" /\ poseSketchImage = None)

\* the start action cannot be taken while a run is in progress or an input
\* is missing; a run is in progress exactly while the loading flag is set
C11_StartDisabled ==
    /\ (isLoading \/ run # None \/ WorkerInFlight \/ InputMissing)
           => ~ENABLED ClickGenerate
    /\ isLoading <=> run # None
    /\ WorkerInFlight => isLoading

\* a step taken while a worker is in flight keeps the batch: same run, same
\* jobs, terminal jobs untouched, claims only added
C11_Step ==
    WorkerInFlight =>
        /\ run' = run
        /\ Len(generatedImages') = Len(generatedImages)
        /\ \A k \in 1..Len(generatedImages) :
               /\ generatedImages'[k].id = generatedImages[k].id
               /\ Terminal(generatedImages[k])
                      => generatedImages'[k] = generatedImages[k]
        /\ Len(claimed') >= Len(claimed)
        /\ \A k \in 1..Len(claimed) : claimed'[k] = claimed[k]
        /\ \A i \in DOMAIN settled :
               settled[i] # "pending" => (i \in DOMAIN settled' /\ settled'[i] = settled[i])

(* C11: at most one run is in progress at any time.  The start action is  *)
(* disabled from the moment a run starts until it completes, and whenever  *)
(* the model image or the guidance image of the selected mode is missing;  *)
(* so the job list is never replaced by a fresh batch while a worker of an *)
(* earlier run is in flight, and no worker publishes into a later batch.   *)
C11_AtMostOneRun == []C11_StartDisabled /\ [][C11_Step]_vars

\* a run is in progress with a call in flight, the user has since switched
\* the mode and every input of the new mode is there: the loading flag
\* alone keeps the button disabled
C11_Witness ==
    /\ run # None
    /\ \E w \in Workers : workers[w].pc = "awaiting"
    /\ poseGuidanceMode # Val(run).poseGuidanceMode
    /\ ~InputMissing

-----------------------------------------------------------------------------
(* handleGenerate called whatever the state of the button *)

\* The handler invoked directly, while no run is in progress: through the
\* button it is never reached with an input missing (the button is disabled
\* then), so its validation is exercised by calling it.
CallHandleGenerate ==
    /\ run = None
    /\ handleGenerate

NextHandler ==
    \/ setModelImage
    \/ setPoseReferenceImage
    \/ setPoseSketchImage
    \/ setPoseGuidanceMode
    \/ CallHandleGenerate
    \/ SettlePool
    \/ WorkerResume
    \/ handleGenerateDone

SpecHandler == InitUI /\ [][NextHandler]_vars

\* the message the claim's cases call for, the model image first
ValidationMessage ==
    IF modelImage = None THEN "Please upload a model image first."
    ELSE IF poseGuidanceMode = "reference"
    THEN "Please upload a reference image for pose extraction."
    ELSE "Please upload a sketch for pose guidance."

\* with no run in progress and an input missing, a step that is not a
\* change of a control is an invocation of the handler
C12_Step ==
    (run = None /\ InputMissing /\ UNCHANGED controls) =>
        /\ error' = Some(ValidationMessage)
        /\ UNCHANGED <<generatedImages, progress, isLoading, run, queue,
                       completedCount, workers, claimed, requests, settled>>

(* C12: invoking the start action with no model image, or in reference    *)
(* mode without a reference image, or in sketch mode without a sketch,    *)
(* sets one top-level validation error and starts no run: the job list,   *)
(* the progress and the loading flag are unchanged and no network call is *)
(* made.                                                                  *)
C12_MissingInputSetsErrorOnly == [][C12_Step]_vars

\* after a completed run the handler was invoked in reference mode without
\* a reference image: the error is set, the earlier results are still there
C12_Witness ==
    /\ error = Some("Please upload a reference image for pose extraction.")
    /\ modelImage # None
    /\ poseGuidanceMode = "reference" /\ poseReferenceImage = None
    /\ ~isLoading
    /\ Len(generatedImages) = 1
    /\ Terminal(generatedImages[1])

-----------------------------------------------------------------------------
(* The generation client on its own: extractImageData *)

JpegPart == [inlineData |-> [mimeType |-> "image/jpeg", data |-> "/9j/"]]

\* the parts a response is made of
ResponseParts == {TextPart, ImagePart, JpegPart}

\* the finishReason of the first candidate
FinishReasons == {"STOP", "MAX_TOKENS", "SAFETY", "RECITATION"}

RECURSIVE SeqsUpTo(_, _)
\* the sequences over S of length at most n
SeqsUpTo(S, n) ==
    IF n = 0 THEN {<<>>}
    ELSE LET shorter == SeqsUpTo(S, n - 1) IN
         shorter \cup {Append(q, x) : q \in shorter, x \in S}

\* a response: the parts of its first candidate and that candidate's
\* finishReason
Responses ==
    {[parts |-> ps, finishReason |-> fr] :
        ps \in SeqsUpTo(ResponseParts, MaxParts), fr \in FinishReasons}

InitClient ==
    /\ modelImage = None
    /\ poseReferenceImage = None
    /\ poseSketchImage = None
    /\ poseGuidanceMode = "text"
    /\ numVariations = 5
    /\ customPrompt = ""
    /\ generatedImages = <<>>
    /\ isLoading = FALSE
    /\ error = None
    /\ progress = 0
    /\ run = None
    /\ queue = <<>>
    /\ completedCount = 0
    /\ workers = [w \in Workers |-> NoWorker]
    /\ claimed = <<>>
    /\ requests = <<>>
    /\ settled = <<>>
    /\ hung = None

\* a response has arrived, extractImageData has not run yet
InitExtract ==
    /\ InitClient
    /\ \E r \in Responses :
           probe = [op |-> "extractImageData", response |-> r, result |-> None]

\* extractImageData(response) returns or throws
ApplyExtractImageData ==
    /\ probe.op = "extractImageData"
    /\ probe.result = None
    /\ probe' = [probe EXCEPT !.result = Some(extractImageData(probe.response))]
    /\ UNCHANGED <<controls, generatedImages, isLoading, error, progress, run,
                   queue, completedCount, workers, claimed, requests, settled,
                   hung>>

SpecExtract == InitExtract /\ [][ApplyExtractImageData]_vars

\* the two failures of the extraction, told apart by their messages (both
\* are plain Errors in the code)
IsGenerationRefused(e, reason) ==
    /\ e.isError
    /\ e.message = "Image generation stopped due to: " \o reason
                       \o ". Check safety ratings."

IsNoImageProduced(e) ==
    /\ e.isError
    /\ e.message = "No image was generated. The model may have refused the request."

-----------------------------------------------------------------------------
(* The generation client on its own: generatePosedVariation up to its call *)

\* data URLs of a supported type whose payload is not base64
ModelNotBase64 == DataUrl("image/png", "@@ not base64 @@")
ReferenceNotBase64 == DataUrl("image/jpeg", "@@ not base64 @@")

\* the payloads above that are not valid base64
IsBase64(data) == data # "@@ not base64 @@"

\* the arguments generatePosedVariation is called with
ModelImages == {ModelPng, ModelGif, ModelNotBase64}

Guidances ==
    {[text |-> t, referenceImage |-> ref, sketchImage |-> sk] :
        t   \in {None, Some(""), Some("dramatic lighting")},
        ref \in {None, Some(ReferenceJpeg), Some(ReferenceNotBase64), Some(ModelGif)},
        sk  \in {None, Some(SketchWebp), Some(ModelGif)}}

\* generatePosedVariation has been called, nothing has run yet
InitAssemble ==
    /\ InitClient
    /\ \E image \in ModelImages, guidance \in Guidances :
           probe = [op |-> "generatePosedVariation", image |-> image,
                    guidance |-> guidance, result |-> None]

\* generatePosedVariation runs to callGeminiImageModel(parts) or throws
ApplyGeneratePosedVariation ==
    /\ probe.op = "generatePosedVariation"
    /\ probe.result = None
    /\ probe' = [probe EXCEPT !.result =
                     Some(generatePosedVariationParts(probe.image, probe.guidance))]
    /\ UNCHANGED <<controls, generatedImages, isLoading, error, progress, run,
                   queue, completedCount, workers, claimed, requests, settled,
                   hung>>

SpecAssemble == InitAssemble /\ [][ApplyGeneratePosedVariation]_vars

\* not an encoded image of a supported type, or a payload that is not base64
Malformed(dataUrl) ==
    \/ dataUrl.mime \notin {"image/png", "image/jpeg", "image/webp"}
    \/ ~IsBase64(dataUrl.data)

\* the images a call sends: the model image and the guidance image it uses
ImagesOfCall ==
    {probe.image}
    \cup (IF probe.guidance.referenceImage # None
          THEN {Val(probe.guidance.referenceImage)}
          ELSE IF probe.guidance.sketchImage # None
          THEN {Val(probe.guidance.sketchImage)}
          ELSE {})

(* C14: if the model image or the guidance image of a call is malformed    *)
(* (not a supported MIME type, or a payload that is not valid base64), the *)
(* client throws its invalid-input error before any network call is made.  *)
C14_MalformedImageFailsBeforeCall ==
    (probe.op = "generatePosedVariation" /\ probe.result # None
        /\ \E img \in ImagesOfCall : Malformed(img))
    => /\ Val(probe.result).thrown
       /\ Val(probe.result).value = ErrorOf("Invalid data URL format")

\* the part of it the code does carry out: an image of an unsupported type
\* stops the call before the network
UnsupportedTypeFailsBeforeCall ==
    (probe.op = "generatePosedVariation" /\ probe.result # None
        /\ \E img \in ImagesOfCall : ~MatchesDataUrl(img))
    => /\ Val(probe.result).thrown
       /\ Val(probe.result).value = ErrorOf("Invalid data URL format")

-----------------------------------------------------------------------------
(* Runs in each guidance mode *)

\* The user has uploaded a model image, a reference image and a sketch,
\* selected a mode and a number of variations, and typed a prompt, left the
\* field empty or typed blanks.
InitModes ==
    /\ modelImage = Some(ModelPng)
    /\ poseReferenceImage = Some(ReferenceJpeg)
    /\ poseSketchImage = Some(SketchWebp)
    /\ poseGuidanceMode \in PoseGuidanceModes
    /\ numVariations \in {n \in Options : n <= MaxOutcomeVariations}
    /\ customPrompt \in {"", "  ", "dramatic lighting"}
    /\ InitApp

\* every call returns an image: what is sent does not depend on what comes back
SettleImage ==
    \E w \in Workers :
        SettleWorker(w, {Responded([parts |-> <<ImagePart>>, finishReason |-> "STOP"])})

NextModes ==
    \/ ClickGenerate
    \/ SettleImage
    \/ WorkerResume
    \/ handleGenerateDone

SpecModes == InitModes /\ [][NextModes]_vars

\* the part fileToGenerativePart makes of an uploaded image
PartOf(image) ==
    [inlineData |-> [data |-> Val(image).data, mimeType |-> Val(image).mime]]

IsTextPart(part) == DOMAIN part = {"text"}

(* C15: the parts sent for a job are, in order: the model image; then      *)
(* exactly one guidance image if and only if the mode is reference or      *)
(* sketch, and it is the image of that mode, never of another; then        *)
(* exactly one text part, last.  Two parts in text mode, three otherwise.  *)
C15_PartsOrder ==
    run # None =>
        /\ Len(requests) = Len(claimed)
        /\ \A k \in 1..Len(requests) :
               LET r     == Val(run)
                   parts == requests[k].parts
               IN  /\ parts[1] = PartOf(r.modelImage)
                   /\ IsTextPart(parts[Len(parts)])
                   /\ r.poseGuidanceMode = "text" => Len(parts) = 2
                   /\ r.poseGuidanceMode = "reference" =>
                          Len(parts) = 3 /\ parts[2] = PartOf(r.poseReferenceImage)
                   /\ r.poseGuidanceMode = "sketch" =>
                          Len(parts) = 3 /\ parts[2] = PartOf(r.poseSketchImage)

\* a run in sketch mode, a reference image being uploaded too, has sent a
\* request of three parts whose second is the sketch
C15_Witness ==
    /\ run # None
    /\ Val(run).poseGuidanceMode = "sketch"
    /\ Val(run).poseReferenceImage # None
    /\ Len(requests) = 5
    /\ Len(requests[5].parts) = 3
    /\ requests[5].parts[2].inlineData.mimeType = "image/webp"

\* the entries of the pose catalog
Catalog == {RANDOM_POSES[i] : i \in 1..Len(RANDOM_POSES)}

\* the instruction text of request k: the clauses of its last part
InstructionOf(k) == requests[k].parts[Len(requests[k].parts)].text

\* a custom instruction is supplied when it is not blank
Supplied(custom) == custom \notin {"", " ", "  "}

(* C16: the instruction text of every job.  Text mode with a custom        *)
(* instruction: the pose text is the custom instruction, for every job.    *)
(* Text mode with a blank custom instruction: the pose text of each job is *)
(* an entry of the pose catalog.  Reference and sketch mode: the pose is   *)
(* the fixed clause of that mode; the custom instruction is appended as a  *)
(* refinement when supplied, no refinement when not, and no catalog pose   *)
(* appears.                                                                *)
C16_InstructionText ==
    run # None =>
        \A k \in 1..Len(requests) :
            LET r      == Val(run)
                custom == r.customPrompt
                text   == InstructionOf(k)
            IN  /\ (r.poseGuidanceMode = "text" /\ Supplied(custom)) =>
                       text = <<TaskClause, TextClause(custom)>>
                /\ (r.poseGuidanceMode = "text" /\ ~Supplied(custom)) =>
                       \E pose \in Catalog : text = <<TaskClause, TextClause(pose)>>
                /\ (r.poseGuidanceMode = "reference" /\ Supplied(custom)) =>
                       text = <<TaskClause, ReferenceClause, RefinementClause(custom)>>
                /\ (r.poseGuidanceMode = "reference" /\ ~Supplied(custom)) =>
                       text = <<TaskClause, ReferenceClause>>
                /\ (r.poseGuidanceMode = "sketch" /\ Supplied(custom)) =>
                       text = <<TaskClause, SketchClause, RefinementClause(custom)>>
                /\ (r.poseGuidanceMode = "sketch" /\ ~Supplied(custom)) =>
                       text = <<TaskClause, SketchClause>>

\* a run in text mode with blanks typed in the prompt field has sent two
\* jobs with different catalog poses and two with the same
C16_Witness ==
    /\ run # None
    /\ Val(run).poseGuidanceMode = "text"
    /\ Val(run).customPrompt = "  "
    /\ Len(requests) = 5
    /\ InstructionOf(1) # InstructionOf(2)
    /\ InstructionOf(2) = InstructionOf(3)
    /\ \A k \in 1..5 : InstructionOf(k)[2].text \in Catalog

-----------------------------------------------------------------------------
(* Network calls, order of claims *)

\* the network calls made for the job of index i in the current run
CallsOf(i) == {k \in 1..Len(requests) : requests[k].index = i}

(* C17: at most one network call is made per job, exactly one for a job    *)
(* that has been claimed when its images are well-formed and none when     *)
(* they are not; the calls of a run number at most N; a failed job is not  *)
(* called again.                                                           *)
C17_OneCallPerJob ==
    /\ Len(requests) <= Len(generatedImages)
    /\ \A i \in DOMAIN settled : Cardinality(CallsOf(i)) <= 1
    /\ run # None =>
           \A k \in 1..Len(claimed) :
               Cardinality(CallsOf(claimed[k])) =
                   IF Val(Val(run).modelImage).mime
                          \in {"image/png", "image/jpeg", "image/webp"}
                   THEN 1 ELSE 0
    /\ (run # None /\ AllTerminated) =>
           Len(requests) \in {0, Len(generatedImages)}

\* all ten jobs of a run are terminal, one of them failed on the network,
\* and ten calls were made
C17_Witness ==
    /\ run # None
    /\ AllTerminated
    /\ Len(requests) = 10
    /\ \E i \in DOMAIN settled : settled[i] = "threw"
    /\ \A i \in DOMAIN settled : Cardinality(CallsOf(i)) = 1

(* C18: jobs are claimed in ascending index order: the k-th claim of a run *)
(* is the job of index k-1, the smallest index not yet claimed.            *)
(* Completion is not ordered (see the witness).                            *)
C18_ClaimsAscend ==
    /\ \A k \in 1..Len(claimed) : claimed[k] = k - 1
    /\ \A k \in 1..Len(queue) : queue[k].index = Len(claimed) + k - 1

\* out-of-order completion: the job of index 9 is terminal while the job
\* of index 0 is still pending
C18_Witness ==
    /\ Len(generatedImages) = 10
    /\ generatedImages[1].status = "pending"
    /\ Terminal(generatedImages[10])
    /\ Len(claimed) = 10

-----------------------------------------------------------------------------
(* A call that never returns *)

\* The worker pool with a well-formed model image, where the network call
\* of one job of each run never returns.  In runs of at most
\* MaxOutcomeVariations jobs it is any job, or none; in larger runs it is
\* the first or the last of the jobs claimed at the start, or the first or
\* the last of the jobs queued then.
InitHung ==
    /\ modelImage = Some(ModelPng)
    /\ poseReferenceImage = None
    /\ poseSketchImage = None
    /\ poseGuidanceMode = "text"
    /\ numVariations \in Options
    /\ customPrompt = "dramatic lighting"
    /\ generatedImages = <<>>
    /\ isLoading = FALSE
    /\ error = None
    /\ progress = 0
    /\ run = None
    /\ queue = <<>>
    /\ completedCount = 0
    /\ workers = [w \in Workers |-> NoWorker]
    /\ claimed = <<>>
    /\ requests = <<>>
    /\ settled = <<>>
    /\ probe = NoProbe
    /\ hung \in IF numVariations <= MaxOutcomeVariations
                THEN {None} \cup {Some(i) : i \in 0..(numVariations - 1)}
                ELSE {Some(0), Some(concurrencyLimit - 1),
                      Some(concurrencyLimit), Some(numVariations - 1)}

\* the calls that return: with an image or a failure in runs of at most
\* MaxOutcomeVariations jobs, with an image in larger runs
SettleReturning ==
    \E w \in Workers :
        SettleWorker(w, IF Len(generatedImages) <= MaxOutcomeVariations
                        THEN PoolOutcomes
                        ELSE {Responded([parts |-> <<ImagePart>>,
                                         finishReason |-> "STOP"])})

NextHung ==
    \/ ClickGenerate
    \/ SettleReturning
    \/ WorkerResume
    \/ handleGenerateDone

\* every other call returns, every continuation that is ready runs
HungSpec ==
    /\ InitHung
    /\ [][NextHung]_vars
    /\ WF_vars(SettleReturning)
    /\ WF_vars(WorkerResume)

\* every job but the hung one is done or error
OthersTerminal ==
    /\ Len(generatedImages) >= 1
    /\ \A k \in 1..Len(generatedImages) :
           Some(generatedImages[k].id) # hung => Terminal(generatedImages[k])

\* the hung job stays pending and its run stays in progress
HungStaysPending ==
    (hung # None /\ run # None) =>
        /\ isLoading
        /\ \A k \in 1..Len(generatedImages) :
               Some(generatedImages[k].id) = hung
                   => generatedImages[k].status = "pending"

(* C19: if the network call of one job never returns while every other    *)
(* call returns, every other job of the run, in flight or still queued,    *)
(* eventually is done or error: the hung call occupies its own worker      *)
(* only, the other workers drain the queue, and only the hung job stays    *)
(* pending.                                                                *)
C19_OthersFinishDespiteHungCall ==
    /\ (isLoading /\ hung # None) ~> OthersTerminal
    /\ []HungStaysPending

\* a run of ten whose job of index 5, queued at the start, hangs: the nine
\* others are terminal, the hung one is pending, four workers have left
\* the loop
C19_Witness ==
    /\ hung = Some(5)
    /\ Len(generatedImages) = 10
    /\ generatedImages[6].status = "pending"
    /\ \A k \in 1..10 : k # 6 => Terminal(generatedImages[k])
    /\ Cardinality({w \in Workers : workers[w].pc = "terminated"}) = 4
    /\ isLoading

-----------------------------------------------------------------------------
(* The progress indicator *)

\* The worker pool with the selector of the number of variations, which is
\* enabled at any time, a run in progress or not.
NextProgress ==
    \/ ClickGenerate
    \/ SettleImage
    \/ WorkerResume
    \/ handleGenerateDone
    \/ SetNumVariations

SpecProgress == Init /\ [][NextProgress]_vars

\* `Generated ${progress} of ${numVariations}` (line 217), rendered while
\* isLoading
DisplayedCompleted == progress
DisplayedTotal == numVariations

(* C20: while a run is in progress the progress indicator shows the        *)
(* completed counter against the number N of jobs of that run, whatever    *)
(* the user does to the controls, the number-of-variations selector        *)
(* included: the displayed total is the run's job count and the displayed  *)
(* completed value never exceeds the displayed total.                      *)
C20_ProgressShownAgainstRunTotal ==
    isLoading =>
        /\ DisplayedTotal = Len(generatedImages)
        /\ DisplayedCompleted <= DisplayedTotal

\* the second half on its own: the completed value within the total shown
CompletedWithinDisplayedTotal == isLoading => DisplayedCompleted <= DisplayedTotal

-----------------------------------------------------------------------------
(* The controls changed during a run *)

\* the prompt textarea and the refinement input (lines 164-170, 177-189)
setCustomPrompt ==
    \E text \in {"", "dramatic lighting", "side profile"} :
        /\ text # customPrompt
        /\ customPrompt' = text
        /\ UNCHANGED <<modelImage, poseReferenceImage, poseSketchImage,
                       poseGuidanceMode, numVariations, runState>>

\* the controls whose value is not the one the run in progress started with
Drift ==
    LET r == Val(run) IN
    Cardinality(
        (IF modelImage # r.modelImage THEN {"modelImage"} ELSE {})
        \cup (IF poseReferenceImage # r.poseReferenceImage
              THEN {"poseReferenceImage"} ELSE {})
        \cup (IF poseSketchImage # r.poseSketchImage
              THEN {"poseSketchImage"} ELSE {})
        \cup (IF poseGuidanceMode # r.poseGuidanceMode
              THEN {"poseGuidanceMode"} ELSE {})
        \cup (IF customPrompt # r.customPrompt THEN {"customPrompt"} ELSE {})
        \cup (IF numVariations # Len(r.prompts) THEN {"numVariations"} ELSE {}))

\* a control used while a run is in progress, at most MaxEdits of them
\* standing changed
setModelImageDuringRun == run # None /\ setModelImage /\ Drift' <= MaxEdits
setPoseReferenceImageDuringRun ==
    run # None /\ setPoseReferenceImage /\ Drift' <= MaxEdits
setPoseSketchImageDuringRun ==
    run # None /\ setPoseSketchImage /\ Drift' <= MaxEdits
setPoseGuidanceModeDuringRun ==
    run # None /\ setPoseGuidanceMode /\ Drift' <= MaxEdits
setCustomPromptDuringRun == run # None /\ setCustomPrompt /\ Drift' <= MaxEdits
SetNumVariationsDuringRun == run # None /\ SetNumVariations /\ Drift' <= MaxEdits

\* One run, from the click to the moment all its jobs are terminal, with
\* every control of the page usable meanwhile.  The user has uploaded the
\* three images, selected a mode and a number of variations and typed a
\* prompt.  Runs larger than MaxOutcomeVariations, the ones with jobs still
\* queued after the start, are explored in reference mode, where the
\* guidance is made of the mode, an image and the text.
InitFrame ==
    /\ modelImage = Some(ModelPng)
    /\ poseReferenceImage = Some(ReferenceJpeg)
    /\ poseSketchImage = Some(SketchWebp)
    /\ poseGuidanceMode \in PoseGuidanceModes
    /\ numVariations \in Options
    /\ numVariations > MaxOutcomeVariations => poseGuidanceMode = "reference"
    /\ customPrompt = "dramatic lighting"
    /\ InitApp

NextFrame ==
    \/ ClickGenerate
    \/ SettleImage
    \/ WorkerResume
    \/ setModelImageDuringRun
    \/ setPoseReferenceImageDuringRun
    \/ setPoseSketchImageDuringRun
    \/ setPoseGuidanceModeDuringRun
    \/ setCustomPromptDuringRun
    \/ SetNumVariationsDuringRun

SpecFrame == InitFrame /\ [][NextFrame]_vars

\* the parts the guidance of run r calls for, for its job of index i: the
\* model image, the image of the run's mode if it is reference or sketch,
\* and the text of that mode (in text mode the job's own prompt of the
\* start), with the run's custom text as refinement
PartsFor(r, i) ==
    <<PartOf(r.modelImage)>>
    \o (IF r.poseGuidanceMode = "reference" THEN <<PartOf(r.poseReferenceImage)>>
        ELSE IF r.poseGuidanceMode = "sketch" THEN <<PartOf(r.poseSketchImage)>>
        ELSE <<>>)
    \o << [text |->
              <<TaskClause>>
              \o (IF r.poseGuidanceMode = "reference" THEN <<ReferenceClause>>
                  ELSE IF r.poseGuidanceMode = "sketch" THEN <<SketchClause>>
                  ELSE <<TextClause(r.prompts[i + 1])>>)
              \o (IF r.poseGuidanceMode # "text" /\ Supplied(r.customPrompt)
                  THEN <<RefinementClause(r.customPrompt)>> ELSE <<>>)] >>

\* the run in progress is the one that was started, with the values the
\* controls had at the click
C21_Step ==
    /\ (run = None /\ run' # None) =>
           /\ Val(run').modelImage = modelImage
           /\ Val(run').poseReferenceImage = poseReferenceImage
           /\ Val(run').poseSketchImage = poseSketchImage
           /\ Val(run').poseGuidanceMode = poseGuidanceMode
           /\ Val(run').customPrompt = customPrompt
           /\ Len(Val(run').prompts) = numVariations
    /\ (run # None /\ run' # None) =>
           /\ run' = run
           /\ Len(generatedImages') = Len(generatedImages)

\* the jobs are as many as at the start and every request sent so far
\* carries the guidance of the start
C21_Frame ==
    run # None =>
        /\ Len(generatedImages) = Len(Val(run).prompts)
        /\ Len(claimed) + Len(queue) = Len(Val(run).prompts)
        /\ \A k \in 1..Len(requests) : requests[k].parts = PartsFor(Val(run), requests[k].index)

(* C21: the guidance of a run (mode, custom text, model image, reference   *)
(* image, sketch image) and its job count N are fixed when the run starts: *)
(* changing the mode, the text or the number of variations, or uploading   *)
(* or removing an image, while the run is in progress changes neither the  *)
(* number of jobs of the run nor the guidance passed to any of its jobs,   *)
(* those not claimed yet included.                                         *)
C21_GuidanceFixedAtStart == []C21_Frame /\ [][C21_Step]_vars

\* a run of ten in reference mode has sent its ten requests; meanwhile the
\* user has switched to text mode
C21_Witness ==
    /\ run # None
    /\ Val(run).poseGuidanceMode = "reference"
    /\ poseGuidanceMode = "text"
    /\ Len(requests) = 10
    /\ Len(requests[10].parts) = 3
    /\ requests[10].parts[2] = PartOf(Some(ReferenceJpeg))

\* the same with the reference image removed during the run
C21_ReferenceRemoved ==
    /\ run # None
    /\ Val(run).poseGuidanceMode = "reference"
    /\ poseReferenceImage = None
    /\ Len(requests) = 10
    /\ requests[10].parts[2] = PartOf(Some(ReferenceJpeg))

====
